---- MODULE Spec2Model ----
(***************************************************************************)
(* The user service of GoodsChain/user: the PostgreSQL users table, the    *)
(* repository operations of internal/repository/user_repo.go run by        *)
(* concurrent callers one store statement at a time, and the status codes  *)
(* the handlers of internal/handler/user_handler.go derive from the        *)
(* repository's errors.                                                    *)
(***************************************************************************)
EXTENDS Integers, Sequences, FiniteSets, TLC

VARIABLES
    users,      \* the rows of table users
    clock,      \* the latest instant time.Now() has returned
    nextId,     \* the next value uuid.New() hands out
    calls,      \* repository calls made so far
    pc,         \* per caller: where its current call stands
    call,       \* per caller: the call's arguments and local variables
    res,        \* per caller: what its last call returned
    deletedOk,  \* history: ids for which a DeleteUser call returned success
    fnIn,       \* input of the pure function under test
    fnOut       \* its output

vars == <<users, clock, nextId, calls, pc, call, res, deletedOk, fnIn, fnOut>>

----------------------------------------------------------------------------
(* Bounds of the model *)

MaxCalls == 2
MaxClock == 2
MaxIds == 2
MaxTotal == 12
MaxPage == 3

Callers == {"c1", "c2"}

----------------------------------------------------------------------------
(* Go values *)

\* A pointer: nil, or the address of one value.
None == <<>>
Some(v) == <<v>>
IsNil(p) == p = <<>>
Deref(p) == p[1]

\* uuid.Nil and the generated ids.
NilUUID == 0
UUIDs == 1..MaxIds

\* time.Time: an instant in clock ticks; the zero time is 0.
Times == 0..MaxClock

\* time.Now() returns t: the clock never runs backwards.
TimeNow(t) == t \in Times /\ clock <= t

\* A TIMESTAMP column keeps microseconds; time.Now() is finer (one microsecond
\* is two clock ticks here), so the stored value is the instant cut down.
DbTimestamp(t) == (t \div 2) * 2

\* models.User as CreateUser fills it in, seen by the INSERT's named parameters.
DbRow(u) ==
    [id |-> u.id, email |-> u.email, full_name |-> u.full_name, phone |-> u.phone,
     role |-> u.role, is_active |-> u.is_active,
     created_at |-> DbTimestamp(u.created_at),
     updated_at |-> DbTimestamp(u.updated_at)]

\* The rows the table may hold when the repository is constructed over it.
SeedAnn ==
    [id |-> 1, email |-> "a@x.com", full_name |-> "Ann", phone |-> None,
     role |-> "admin", is_active |-> TRUE, created_at |-> 0, updated_at |-> 0]
SeedBob ==
    [id |-> 2, email |-> "b@x.com", full_name |-> "Bob", phone |-> Some("555"),
     role |-> "staff", is_active |-> FALSE, created_at |-> 0, updated_at |-> 0]
SeedTables == {{}, {SeedAnn}, {SeedAnn, SeedBob}}

\* models.UpdateUserRequest: five optional fields, each nil or a new value.
Patch ==
    [email |-> Some("b@x.com"), full_name |-> Some("Zed"), phone |-> Some("999"),
     role |-> Some("supplier"), is_active |-> Some(FALSE)]
PatchFields == {"email", "full_name", "phone", "role", "is_active"}
Request(fields) == [f \in PatchFields |-> IF f \in fields THEN Patch[f] ELSE None]
UpdateRequests ==
    {Request(fs) : fs \in {{}, PatchFields, {"full_name", "role"}}
                          \cup {{f} : f \in PatchFields}}

\* The models.User objects callers hand to CreateUser: the handler's (server
\* fields zero) and ones with the server fields pre-populated.
NewUsers ==
    {[id |-> j.id, email |-> e, full_name |-> "Cy", phone |-> j.phone,
      role |-> "supplier", is_active |-> j.is_active, created_at |-> j.at,
      updated_at |-> j.at] :
        e \in {"a@x.com", "c@x.com"},
        j \in {[id |-> NilUUID, is_active |-> FALSE, at |-> 0, phone |-> None],
               [id |-> 2, is_active |-> FALSE, at |-> 1, phone |-> Some("777")]}}

\* error values: the message fmt.Errorf puts in front and the wrapped cause.
NoErr == [msg |-> "", cause |-> "none"]
Err(m, c) == [msg |-> m, cause |-> c]

\* What a call returns: (*models.User, error) or (*models.GetUsersResponse, error),
\* or a panic unwinding out of it.
Result(u, l, e) == [user |-> u, list |-> l, err |-> e, panic |-> FALSE]
Panic == [user |-> None, list |-> None, err |-> NoErr, panic |-> TRUE]
NoResult == Result(None, None, NoErr)

\* A call's arguments and locals; seq numbers the calls in the order they start.
\* History kept with them: stmts, the statements sent to the store so far;
\* canceled, whether the store failed one of them (as it does when ctx is
\* canceled); before, the table when the call started.
NoReq == [email |-> None, full_name |-> None, phone |-> None, role |-> None,
          is_active |-> None]
NoCall ==
    [op |-> "none", seq |-> 0, id |-> NilUUID, input |-> None, updates |-> NoReq,
     filters |-> None, sort |-> None, pagination |-> None,
     now |-> 0, found |-> None, total |-> 0, stmts |-> <<>>,
     canceled |-> FALSE, before |-> {}]

\* models.FilterParams with no field set.
NoFilter ==
    [role |-> None, is_active |-> None, search |-> None, email_domain |-> None,
     created_from |-> None, created_to |-> None, updated_from |-> None,
     updated_to |-> None]

----------------------------------------------------------------------------
(* The users table (db/migrations/000001_create_users_table.up.sql) *)

RowsById(id) == {r \in users : r.id = id}
RowOf(id) == CHOOSE r \in users : r.id = id

\* Were email without its UNIQUE constraint.
ViolatesUnique_IdOnly(row, table) ==
    \E r \in table : r.id = row.id

\* id UUID PRIMARY KEY, email TEXT NOT NULL UNIQUE
ViolatesUnique(row, table) ==
    \E r \in table : r.id = row.id \/ r.email = row.email

\* What the store does with one statement besides executing it.
QueryOutcomes == {"ok", "fail", "scan"}
ReturningOutcomes == {"ok", "fail", "norows", "scan"}
ExecOutcomes == {"ok", "fail", "rowcount"}

----------------------------------------------------------------------------
(* Callers *)

CanCall(c) == pc[c] \in {"idle", "done"} /\ calls < MaxCalls

Begin(c, cl) ==
    /\ CanCall(c)
    /\ calls' = calls + 1
    /\ call' = [call EXCEPT ![c] = [cl EXCEPT !.seq = calls + 1, !.before = users]]

\* The call returns r.
Finish(c, r) ==
    /\ pc' = [pc EXCEPT ![c] = "done"]
    /\ res' = [res EXCEPT ![c] = r]

\* The call goes on to its next statement.
Goto(c, label) ==
    /\ pc' = [pc EXCEPT ![c] = label]
    /\ res' = [res EXCEPT ![c] = NoResult]

----------------------------------------------------------------------------
(* CreateUser *)

\* Were the id assigned only when the caller left it unset.
AssignServerFields_KeepId(user, id, t1, t2) ==
    [user EXCEPT !.id = IF user.id = NilUUID THEN id ELSE user.id,
                 !.created_at = t1, !.updated_at = t2, !.is_active = TRUE]

\* lines 34-37: the server-assigned fields overwrite the caller's.
AssignServerFields(user, id, t1, t2) ==
    [user EXCEPT !.id = id, !.created_at = t1, !.updated_at = t2, !.is_active = TRUE]

\* Were the caller's object returned instead of the row scanned back.
CreateReturn_Input(user, row, outcome) ==
    CASE outcome = "norows" ->
           Result(None, None, Err("no user returned after insert", "none"))
      [] outcome = "scan" ->
           Result(None, None, Err("failed to scan created user", "scan"))
      [] OTHER -> Result(Some(user), None, NoErr)

\* lines 45-59: what CreateUser returns once the INSERT of user has stored row:
\* the row scanned back from RETURNING.
CreateReturn(user, row, outcome) ==
    CASE outcome = "norows" ->
           Result(None, None, Err("no user returned after insert", "none"))
      [] outcome = "scan" ->
           Result(None, None, Err("failed to scan created user", "scan"))
      [] OTHER -> Result(Some(row), None, NoErr)

CreateUser(c, user, t1, t2, outcome) ==
    LET u == AssignServerFields(user, nextId, t1, t2)
        row == DbRow(u)
        cl == [NoCall EXCEPT !.op = "create", !.input = Some(user), !.id = nextId,
                             !.now = t2, !.stmts = <<"INSERT">>,
                             !.canceled = (outcome = "fail")]
    IN  /\ nextId <= MaxIds
        /\ TimeNow(t1) /\ t1 <= t2 /\ t2 \in Times
        /\ Begin(c, cl)
        /\ nextId' = nextId + 1
        /\ clock' = t2
        /\ UNCHANGED <<deletedOk, fnIn, fnOut>>
        /\ IF outcome = "fail"
           THEN /\ users' = users
                /\ Finish(c, Result(None, None, Err("failed to insert user", "driver")))
           ELSE IF ViolatesUnique(row, users)
           THEN /\ users' = users
                /\ Finish(c, Result(None, None,
                                    Err("failed to insert user", "unique_violation")))
           ELSE /\ users' = users \cup {row}
                /\ Finish(c, CreateReturn(u, row, outcome))

----------------------------------------------------------------------------
(* GetUserByID *)

\* Were a failed lookup to go unnoticed.
GetContext_IgnoresFailure(id, outcome) ==
    IF RowsById(id) = {} THEN [row |-> None, cause |-> "sql.ErrNoRows"]
    ELSE IF outcome = "scan" THEN [row |-> None, cause |-> "scan"]
    ELSE [row |-> Some(RowOf(id)), cause |-> "none"]

\* db.GetContext of the row with this id: the row, or the cause of the error.
GetContext(id, outcome) ==
    IF outcome = "fail" THEN [row |-> None, cause |-> "driver"]
    ELSE IF RowsById(id) = {} THEN [row |-> None, cause |-> "sql.ErrNoRows"]
    ELSE IF outcome = "scan" THEN [row |-> None, cause |-> "scan"]
    ELSE [row |-> Some(RowOf(id)), cause |-> "none"]

\* Were the lookup to write to the row it reads.
GetUserByID_Touch(c, id, outcome) ==
    LET got == GetContext(id, outcome)
        cl == [NoCall EXCEPT !.op = "get", !.id = id, !.stmts = <<"SELECT">>,
                             !.canceled = (outcome = "fail")]
    IN  /\ Begin(c, cl)
        /\ users' = (users \ RowsById(id))
                        \cup {[r EXCEPT !.is_active = FALSE] : r \in RowsById(id)}
        /\ UNCHANGED <<clock, nextId, deletedOk, fnIn, fnOut>>
        /\ IF got.cause # "none"
           THEN Finish(c, Result(None, None, Err("user not found", got.cause)))
           ELSE Finish(c, Result(got.row, None, NoErr))

GetUserByID(c, id, outcome) ==
    LET got == GetContext(id, outcome)
        cl == [NoCall EXCEPT !.op = "get", !.id = id, !.stmts = <<"SELECT">>,
                             !.canceled = (outcome = "fail")]
    IN  /\ Begin(c, cl)
        /\ UNCHANGED <<users, clock, nextId, deletedOk, fnIn, fnOut>>
        /\ IF got.cause # "none"
           THEN Finish(c, Result(None, None, Err("user not found", got.cause)))
           ELSE Finish(c, Result(got.row, None, NoErr))

----------------------------------------------------------------------------
(* UpdateUser *)

\* lines 86-114: the SET clause, one part per field present, then updated_at.
SetParts(updates) ==
    (IF IsNil(updates.email) THEN <<>> ELSE <<"email = :email">>)
    \o (IF IsNil(updates.full_name) THEN <<>> ELSE <<"full_name = :full_name">>)
    \o (IF IsNil(updates.phone) THEN <<>> ELSE <<"phone = :phone">>)
    \o (IF IsNil(updates.role) THEN <<>> ELSE <<"role = :role">>)
    \o (IF IsNil(updates.is_active) THEN <<>> ELSE <<"is_active = :is_active">>)
    \o <<"updated_at = :updated_at">>

\* Were the name written on every update, empty when the request leaves it out.
ApplyUpdate_WritesName(row, updates, t) ==
    [id |-> row.id,
     email |-> IF IsNil(updates.email) THEN row.email ELSE Deref(updates.email),
     full_name |-> IF IsNil(updates.full_name) THEN "" ELSE Deref(updates.full_name),
     phone |-> IF IsNil(updates.phone) THEN row.phone ELSE Some(Deref(updates.phone)),
     role |-> IF IsNil(updates.role) THEN row.role ELSE Deref(updates.role),
     is_active |-> IF IsNil(updates.is_active) THEN row.is_active
                   ELSE Deref(updates.is_active),
     created_at |-> row.created_at,
     updated_at |-> DbTimestamp(t)]

\* Were phone written on every update, NULL when the request leaves it out.
ApplyUpdate_WritesPhone(row, updates, t) ==
    [id |-> row.id,
     email |-> IF IsNil(updates.email) THEN row.email ELSE Deref(updates.email),
     full_name |-> IF IsNil(updates.full_name) THEN row.full_name
                   ELSE Deref(updates.full_name),
     phone |-> updates.phone,
     role |-> IF IsNil(updates.role) THEN row.role ELSE Deref(updates.role),
     is_active |-> IF IsNil(updates.is_active) THEN row.is_active
                   ELSE Deref(updates.is_active),
     created_at |-> row.created_at,
     updated_at |-> DbTimestamp(t)]

\* lines 129-134: the row as UPDATE users SET <parts> leaves it.
ApplyUpdate(row, updates, t) ==
    LET parts == {SetParts(updates)[i] : i \in 1..Len(SetParts(updates))}
    IN  [id |-> row.id,
         email |-> IF "email = :email" \in parts THEN Deref(updates.email)
                   ELSE row.email,
         full_name |-> IF "full_name = :full_name" \in parts
                       THEN Deref(updates.full_name) ELSE row.full_name,
         phone |-> IF "phone = :phone" \in parts THEN Some(Deref(updates.phone))
                   ELSE row.phone,
         role |-> IF "role = :role" \in parts THEN Deref(updates.role) ELSE row.role,
         is_active |-> IF "is_active = :is_active" \in parts
                       THEN Deref(updates.is_active) ELSE row.is_active,
         created_at |-> row.created_at,
         updated_at |-> IF "updated_at = :updated_at" \in parts THEN DbTimestamp(t)
                        ELSE row.updated_at]

\* Were the empty request turned away before the row is looked up.
UpdateCheck_EmptyFirst(c, id, updates, t, outcome) ==
    LET got == GetContext(id, outcome)
        cl == [NoCall EXCEPT !.op = "update", !.id = id, !.updates = updates,
                             !.stmts = <<"SELECT">>,
                             !.canceled = (outcome = "fail")]
    IN  /\ UNCHANGED <<users, nextId, deletedOk, fnIn, fnOut>>
        /\ IF Len(SetParts(updates)) = 1
           THEN /\ Begin(c, [cl EXCEPT !.stmts = <<>>])
                /\ clock' = clock
                /\ Finish(c, Result(None, None, Err("no fields to update", "none")))
           ELSE IF got.cause # "none"
           THEN /\ Begin(c, cl)
                /\ clock' = clock
                /\ Finish(c, Result(None, None, Err("user not found", got.cause)))
           ELSE /\ TimeNow(t)
                /\ Begin(c, [cl EXCEPT !.now = t])
                /\ clock' = t
                /\ Goto(c, "update")

\* lines 78-118: the existence check, then the SET clause.
UpdateCheck(c, id, updates, t, outcome) ==
    LET got == GetContext(id, outcome)
        cl == [NoCall EXCEPT !.op = "update", !.id = id, !.updates = updates,
                             !.stmts = <<"SELECT">>,
                             !.canceled = (outcome = "fail")]
    IN  /\ UNCHANGED <<users, nextId, deletedOk, fnIn, fnOut>>
        /\ IF got.cause # "none"
           THEN /\ Begin(c, cl)
                /\ clock' = clock
                /\ Finish(c, Result(None, None, Err("user not found", got.cause)))
           ELSE /\ TimeNow(t)
                /\ Begin(c, [cl EXCEPT !.now = t])
                /\ clock' = t
                /\ IF Len(SetParts(updates)) = 1
                   THEN Finish(c, Result(None, None, Err("no fields to update", "none")))
                   ELSE Goto(c, "update")

\* Were an UPDATE that matches no row answered as a missing user.
UpdateReturn_NotFound(returned, outcome) ==
    IF returned = {}
    THEN Result(None, None, Err("user not found", "none"))
    ELSE IF outcome = "norows"
    THEN Result(None, None, Err("no user returned after update", "none"))
    ELSE IF outcome = "scan"
    THEN Result(None, None, Err("failed to scan updated user", "scan"))
    ELSE Result(Some(CHOOSE r \in returned : TRUE), None, NoErr)

\* lines 142-150: what UpdateUser returns once the UPDATE has run, returned
\* being the rows its RETURNING clause yields (none when no row has the id).
UpdateReturn(returned, outcome) ==
    IF returned = {} \/ outcome = "norows"
    THEN Result(None, None, Err("no user returned after update", "none"))
    ELSE IF outcome = "scan"
    THEN Result(None, None, Err("failed to scan updated user", "scan"))
    ELSE Result(Some(CHOOSE r \in returned : TRUE), None, NoErr)

\* Were a failed UPDATE issued a second time.
UpdateExec_Retry(c, outcome) ==
    LET id == call[c].id
        new == ApplyUpdate(RowOf(id), call[c].updates, call[c].now)
    IN  /\ pc[c] = "update"
        /\ call' = [call EXCEPT ![c].stmts = IF outcome = "fail"
                                             THEN @ \o <<"UPDATE", "UPDATE">>
                                             ELSE Append(@, "UPDATE"),
                                ![c].canceled = FALSE]
        /\ UNCHANGED <<clock, nextId, calls, deletedOk, fnIn, fnOut>>
        /\ IF RowsById(id) = {}
           THEN /\ users' = users
                /\ Finish(c, UpdateReturn({}, outcome))
           ELSE IF \E r \in users : r.id # id /\ r.email = new.email
           THEN /\ users' = users
                /\ Finish(c, Result(None, None,
                                    Err("failed to update user", "unique_violation")))
           ELSE /\ users' = (users \ RowsById(id)) \cup {new}
                /\ Finish(c, UpdateReturn({new}, outcome))

\* lines 136-150: the UPDATE ... RETURNING.
UpdateExec(c, outcome) ==
    LET id == call[c].id
        new == ApplyUpdate(RowOf(id), call[c].updates, call[c].now)
    IN  /\ pc[c] = "update"
        /\ call' = [call EXCEPT ![c].stmts = Append(@, "UPDATE"),
                                ![c].canceled = (outcome = "fail")]
        /\ UNCHANGED <<clock, nextId, calls, deletedOk, fnIn, fnOut>>
        /\ IF outcome = "fail"
           THEN /\ users' = users
                /\ Finish(c, Result(None, None, Err("failed to update user", "driver")))
           ELSE IF RowsById(id) = {}
           THEN /\ users' = users
                /\ Finish(c, UpdateReturn({}, outcome))
           ELSE IF \E r \in users : r.id # id /\ r.email = new.email
           THEN /\ users' = users
                /\ Finish(c, Result(None, None,
                                    Err("failed to update user", "unique_violation")))
           ELSE /\ users' = (users \ RowsById(id)) \cup {new}
                /\ Finish(c, UpdateReturn({new}, outcome))

----------------------------------------------------------------------------
(* DeleteUser *)

\* lines 156-161: the row is fetched first.
DeleteSelect(c, id, outcome) ==
    LET got == GetContext(id, outcome)
        cl == [NoCall EXCEPT !.op = "delete", !.id = id, !.found = got.row,
                             !.stmts = <<"SELECT">>,
                             !.canceled = (outcome = "fail")]
    IN  /\ Begin(c, cl)
        /\ UNCHANGED <<users, clock, nextId, deletedOk, fnIn, fnOut>>
        /\ IF got.cause # "none"
           THEN Finish(c, Result(None, None, Err("user not found", got.cause)))
           ELSE Goto(c, "delete")

\* Were the count of deleted rows not looked at.
DeleteReturn_AnyCount(userToDelete, rowsAffected, outcome) ==
    IF outcome = "rowcount"
    THEN Result(None, None, Err("failed to get rows affected", "driver"))
    ELSE Result(userToDelete, None, NoErr)

\* Were a successful delete to return no entity.
DeleteReturn_NoEntity(userToDelete, rowsAffected, outcome) ==
    IF outcome = "rowcount"
    THEN Result(None, None, Err("failed to get rows affected", "driver"))
    ELSE IF rowsAffected = 0
    THEN Result(None, None, Err("user not found", "none"))
    ELSE Result(None, None, NoErr)

\* lines 171-179: what DeleteUser returns once the DELETE has run.
DeleteReturn(userToDelete, rowsAffected, outcome) ==
    IF outcome = "rowcount"
    THEN Result(None, None, Err("failed to get rows affected", "driver"))
    ELSE IF rowsAffected = 0
    THEN Result(None, None, Err("user not found", "none"))
    ELSE Result(userToDelete, None, NoErr)

\* Were the DELETE to leave the row in place.
DeleteRows_None(id) == users

\* Were the row only marked inactive.
DeleteRows_Deactivate(id) ==
    (users \ RowsById(id)) \cup {[r EXCEPT !.is_active = FALSE] : r \in RowsById(id)}

\* line 164: the table as DELETE FROM users WHERE id = $1 leaves it.
DeleteRows(id) == users \ RowsById(id)

\* lines 164-179: the DELETE and its row count.
DeleteExec(c, outcome) ==
    LET id == call[c].id
        ret == DeleteReturn(call[c].found, Cardinality(RowsById(id)), outcome)
    IN  /\ pc[c] = "delete"
        /\ call' = [call EXCEPT ![c].stmts = Append(@, "DELETE"),
                                ![c].canceled = (outcome = "fail")]
        /\ UNCHANGED <<clock, nextId, calls, fnIn, fnOut>>
        /\ IF outcome = "fail"
           THEN /\ UNCHANGED <<users, deletedOk>>
                /\ Finish(c, Result(None, None, Err("failed to delete user", "driver")))
           ELSE /\ users' = DeleteRows(id)
                /\ deletedOk' = IF ret.err = NoErr THEN deletedOk \cup {id}
                                ELSE deletedOk
                /\ Finish(c, ret)

----------------------------------------------------------------------------
(* GetAllUsers *)

\* One condition of the WHERE clause: fmt.Sprintf(expr, ph...).
Condition(expr, ph) == [expr |-> expr, ph |-> ph]

\* Were argCount to go up once per placeholder written and not once per value.
AddCondition_PerPlaceholder(w, applies, expr, uses, arg) ==
    IF applies
    THEN [conditions |-> Append(w.conditions,
                                Condition(expr, [i \in 1..uses |-> w.argCount + i])),
          args |-> Append(w.args, arg),
          argCount |-> w.argCount + uses]
    ELSE w

\* lines 248-294, one field: when it applies, argCount goes up, the condition
\* takes that placeholder and the bound value is appended.
AddCondition(w, applies, expr, uses, arg) ==
    IF applies
    THEN [conditions |-> Append(w.conditions,
                                Condition(expr, [i \in 1..uses |-> w.argCount + 1])),
          args |-> Append(w.args, arg),
          argCount |-> w.argCount + 1]
    ELSE w

\* lines 239-309. The clause is the conditions joined by " AND ": "" when none.
buildWhereClause(filters) ==
    LET w0 == [conditions |-> <<>>, args |-> <<>>, argCount |-> 0]
    IN  IF IsNil(filters) THEN w0
        ELSE
        LET f == Deref(filters)
            w1 == AddCondition(w0, ~IsNil(f.role), "role = $%d", 1, f.role)
            w2 == AddCondition(w1, ~IsNil(f.is_active), "is_active = $%d", 1,
                               f.is_active)
            w3 == AddCondition(w2, ~IsNil(f.search) /\ f.search # Some(""),
                    "(LOWER(full_name) LIKE LOWER($%d) OR LOWER(email) LIKE LOWER($%d))",
                    2, <<"%">> \o f.search \o <<"%">>)
            w4 == AddCondition(w3, ~IsNil(f.email_domain) /\ f.email_domain # Some(""),
                               "email LIKE $%d", 1, <<"%@">> \o f.email_domain \o <<"%">>)
            w5 == AddCondition(w4, ~IsNil(f.created_from), "created_at >= $%d", 1,
                               f.created_from)
            w6 == AddCondition(w5, ~IsNil(f.created_to), "created_at <= $%d", 1,
                               f.created_to)
            w7 == AddCondition(w6, ~IsNil(f.updated_from), "updated_at >= $%d", 1,
                               f.updated_from)
            w8 == AddCondition(w7, ~IsNil(f.updated_to), "updated_at <= $%d", 1,
                               f.updated_to)
        IN  w8

\* lines 318-326
fieldMap == {"id", "email", "full_name", "role", "is_active", "created_at", "updated_at"}

\* Were the requested field written into the clause without the lookup.
buildOrderClause_PassThrough(sort) ==
    IF IsNil(sort) THEN [field |-> "created_at", order |-> "ASC"]
    ELSE [field |-> Deref(sort).field,
          order |-> IF Deref(sort).order = "desc" THEN "DESC" ELSE "ASC"]

\* lines 312-339
buildOrderClause(sort) ==
    IF IsNil(sort) THEN [field |-> "created_at", order |-> "ASC"]
    ELSE [field |-> IF Deref(sort).field \in fieldMap THEN Deref(sort).field
                    ELSE "created_at",
          order |-> IF Deref(sort).order = "desc" THEN "DESC" ELSE "ASC"]

\* A piece of query text that holds no placeholder.
Text(s) == Condition(s, <<>>)

\* lines 300-308: the conditions joined by " AND ".
RECURSIVE whereClause(_)
whereClause(conditions) ==
    IF conditions = <<>> THEN <<>>
    ELSE IF Len(conditions) = 1 THEN conditions
    ELSE <<Head(conditions), Text(" AND ")>> \o whereClause(Tail(conditions))

\* Were the WHERE keyword written whether or not there is a condition.
GetAllUsersQueries_AlwaysWhere(filters, sort, pagination) ==
    LET w == buildWhereClause(filters)
        clause == whereClause(w.conditions)
        where == <<Text(" WHERE ")>> \o clause
        order == buildOrderClause(sort)
    IN  [whereClause |-> clause,
         countQuery |-> <<Text("SELECT COUNT(*) FROM users")>> \o where,
         countArgs |-> w.args,
         baseQuery |-> <<Text("SELECT id, email, full_name, phone, role, is_active, created_at, updated_at FROM users")>>
                         \o where
                         \o <<Text(" ORDER BY "), Text(order.field), Text(order.order)>>
                         \o <<Condition(" LIMIT $%d", <<Len(w.args) + 1>>),
                              Condition(" OFFSET $%d", <<Len(w.args) + 2>>)>>,
         args |-> w.args \o <<pagination.page_size, pagination.offset>>]

\* Were the offset bound before the page size.
GetAllUsersQueries_OffsetFirst(filters, sort, pagination) ==
    LET w == buildWhereClause(filters)
        clause == whereClause(w.conditions)
        where == IF clause # <<>> THEN <<Text(" WHERE ")>> \o clause ELSE <<>>
        order == buildOrderClause(sort)
    IN  [whereClause |-> clause,
         countQuery |-> <<Text("SELECT COUNT(*) FROM users")>> \o where,
         countArgs |-> w.args,
         baseQuery |-> <<Text("SELECT id, email, full_name, phone, role, is_active, created_at, updated_at FROM users")>>
                         \o where
                         \o <<Text(" ORDER BY "), Text(order.field), Text(order.order)>>
                         \o <<Condition(" LIMIT $%d", <<Len(w.args) + 1>>),
                              Condition(" OFFSET $%d", <<Len(w.args) + 2>>)>>,
         args |-> w.args \o <<pagination.offset, pagination.page_size>>]

\* lines 185-207: the text and the arguments of the count query and of the data
\* query, each a sequence of pieces of text with their placeholder numbers.
GetAllUsersQueries(filters, sort, pagination) ==
    LET w == buildWhereClause(filters)
        clause == whereClause(w.conditions)
        where == IF clause # <<>> THEN <<Text(" WHERE ")>> \o clause ELSE <<>>
        order == buildOrderClause(sort)
    IN  [whereClause |-> clause,
         countQuery |-> <<Text("SELECT COUNT(*) FROM users")>> \o where,
         countArgs |-> w.args,
         baseQuery |-> <<Text("SELECT id, email, full_name, phone, role, is_active, created_at, updated_at FROM users")>>
                         \o where
                         \o <<Text(" ORDER BY "), Text(order.field), Text(order.order)>>
                         \o <<Condition(" LIMIT $%d", <<Len(w.args) + 1>>),
                              Condition(" OFFSET $%d", <<Len(w.args) + 2>>)>>,
         args |-> w.args \o <<pagination.page_size, pagination.offset>>]

\* Were the page count the quotient rounded down.
PaginationMeta_RoundDown(total, pagination) ==
    LET pages == total \div pagination.page_size
        totalPages == IF pages = 0 THEN 1 ELSE pages
    IN  [page |-> pagination.page, page_size |-> pagination.page_size,
         total |-> total, total_pages |-> totalPages,
         has_next |-> pagination.page < totalPages,
         has_prev |-> pagination.page > 1]

\* lines 217-230
PaginationMeta(total, pagination) ==
    LET pages == (total + pagination.page_size - 1) \div pagination.page_size
        totalPages == IF pages = 0 THEN 1 ELSE pages
    IN  [page |-> pagination.page, page_size |-> pagination.page_size,
         total |-> total, total_pages |-> totalPages,
         has_next |-> pagination.page < totalPages,
         has_prev |-> pagination.page > 1]

\* The characters of the strings the model's rows and patterns are made of.
Chars(s) ==
    CASE s = "a@x.com" -> <<"a", "@", "x", ".", "c", "o", "m">>
      [] s = "b@x.com" -> <<"b", "@", "x", ".", "c", "o", "m">>
      [] s = "c@x.com" -> <<"c", "@", "x", ".", "c", "o", "m">>
      [] s = "Ann" -> <<"A", "n", "n">>
      [] s = "Bob" -> <<"B", "o", "b">>
      [] s = "Cy" -> <<"C", "y">>
      [] s = "Zed" -> <<"Z", "e", "d">>
      [] s = "x.com" -> <<"x", ".", "c", "o", "m">>
      [] s = "AN" -> <<"A", "N">>
      [] s = " " -> <<" ">>
      [] s = "%" -> <<"%">>
      [] s = "%@" -> <<"%", "@">>
      [] OTHER -> <<>>

\* SQL LOWER on the letters in use.
Lower(ch) ==
    CASE ch = "A" -> "a" [] ch = "B" -> "b" [] ch = "C" -> "c" [] ch = "N" -> "n"
      [] ch = "Z" -> "z" [] OTHER -> ch
LowerSeq(cs) == [i \in 1..Len(cs) |-> Lower(cs[i])]

\* The text of a bound pattern, its pieces concatenated.
PatternChars(pat) == Chars(pat[1]) \o Chars(pat[2]) \o Chars(pat[3])

\* value LIKE pattern for the patterns built here, %text%: value contains text.
Like(cs, pat) ==
    LET text == SubSeq(pat, 2, Len(pat) - 1)
    IN  \E i \in 0..(Len(cs) - Len(text)) : SubSeq(cs, i + 1, i + Len(text)) = text

\* Whether a row satisfies one condition under the bound arguments.
EvalCondition(r, cond, args) ==
    LET arg == args[cond.ph[1]]
    IN  CASE cond.expr = "role = $%d" -> r.role = Deref(arg)
          [] cond.expr = "is_active = $%d" -> r.is_active = Deref(arg)
          [] cond.expr = "(LOWER(full_name) LIKE LOWER($%d) OR LOWER(email) LIKE LOWER($%d))" ->
               \/ Like(LowerSeq(Chars(r.full_name)), LowerSeq(PatternChars(arg)))
               \/ Like(LowerSeq(Chars(r.email)), LowerSeq(PatternChars(arg)))
          [] cond.expr = "email LIKE $%d" -> Like(Chars(r.email), PatternChars(arg))
          [] cond.expr = "created_at >= $%d" -> r.created_at >= Deref(arg)
          [] cond.expr = "created_at <= $%d" -> r.created_at <= Deref(arg)
          [] cond.expr = "updated_at >= $%d" -> r.updated_at >= Deref(arg)
          [] cond.expr = "updated_at <= $%d" -> r.updated_at <= Deref(arg)

\* The rows a WHERE clause selects (all rows when it is omitted).
Matching(w) ==
    {r \in users : \A i \in 1..Len(w.conditions) : EvalCondition(r, w.conditions[i], w.args)}

\* The strings of the model in ascending order, for ORDER BY on a text column.
Collation ==
    <<"Ann", "Bob", "Cy", "Zed", "a@x.com", "admin", "b@x.com", "c@x.com", "staff",
      "supplier">>
SortKey(r, field) ==
    CASE field \in {"id", "created_at", "updated_at"} -> r[field]
      [] field = "is_active" -> IF r.is_active THEN 1 ELSE 0
      [] OTHER -> CHOOSE i \in 1..Len(Collation) : Collation[i] = r[field]

\* r comes before q under ORDER BY field order (rows with equal keys: by id).
Before(r, q, o) ==
    LET kr == SortKey(r, o.field)
        kq == SortKey(q, o.field)
    IN  \/ IF o.order = "DESC" THEN kr > kq ELSE kr < kq
        \/ kr = kq /\ r.id < q.id

RECURSIVE Ordered(_, _)
Ordered(rows, o) ==
    IF rows = {} THEN <<>>
    ELSE LET first == CHOOSE r \in rows : \A q \in rows \ {r} : Before(r, q, o)
         IN  <<first>> \o Ordered(rows \ {first}, o)

\* Were the LIMIT left out of the data query.
Window_NoLimit(rows, limit, offset) == SubSeq(rows, offset + 1, Len(rows))

\* ... LIMIT limit OFFSET offset
Window(rows, limit, offset) ==
    SubSeq(rows, offset + 1, IF offset + limit < Len(rows) THEN offset + limit
                             ELSE Len(rows))

\* lines 185-208: the count query, then the rest of the data query is built.
ListCount(c, filters, sort, pagination, outcome) ==
    LET w == buildWhereClause(filters)
        cl == [NoCall EXCEPT !.op = "list", !.filters = filters, !.sort = sort,
                             !.pagination = pagination,
                             !.total = Cardinality(Matching(w)),
                             !.stmts = <<"COUNT">>,
                             !.canceled = (outcome = "fail")]
    IN  /\ UNCHANGED <<users, clock, nextId, deletedOk, fnIn, fnOut>>
        /\ IF outcome # "ok"
           THEN /\ Begin(c, [cl EXCEPT !.total = 0])
                /\ Finish(c, Result(None, None, Err("failed to get total count",
                                                    IF outcome = "scan" THEN "scan"
                                                    ELSE "driver")))
           ELSE /\ Begin(c, cl)
                /\ IF IsNil(pagination) THEN Finish(c, Panic) ELSE Goto(c, "list")

\* lines 210-235: the data query and the pagination metadata.
ListData(c, outcome) ==
    LET w == buildWhereClause(call[c].filters)
        pagination == Deref(call[c].pagination)
        limitPh == Len(w.args) + 1
        offsetPh == Len(w.args) + 2
        args == w.args \o <<pagination.page_size, pagination.offset>>
        data == Window(Ordered(Matching(w), buildOrderClause(call[c].sort)),
                       args[limitPh], args[offsetPh])
    IN  /\ pc[c] = "list"
        /\ call' = [call EXCEPT ![c].stmts = Append(@, "SELECT"),
                                ![c].canceled = (outcome = "fail")]
        /\ UNCHANGED <<users, clock, nextId, calls, deletedOk, fnIn, fnOut>>
        /\ IF outcome # "ok"
           THEN Finish(c, Result(None, None, Err("failed to get users",
                                                 IF outcome = "scan" THEN "scan"
                                                 ELSE "driver")))
           ELSE Finish(c, Result(None,
                                 Some([data |-> data,
                                       pagination |-> PaginationMeta(call[c].total,
                                                                     pagination)]),
                                 NoErr))

----------------------------------------------------------------------------
(* The inputs of GetAllUsers *)

ListFilters ==
    {None, Some(NoFilter), Some([NoFilter EXCEPT !.role = Some("admin")]),
     Some([NoFilter EXCEPT !.search = Some("AN"), !.is_active = Some(TRUE)])}
ListSorts == {None, Some([field |-> "email", order |-> "desc"])}
ListPages ==
    {None, Some([page |-> 1, page_size |-> 1, offset |-> 0]),
     Some([page |-> 2, page_size |-> 1, offset |-> 1])}

----------------------------------------------------------------------------

Init ==
    /\ users \in SeedTables
    /\ clock = 0
    /\ nextId = Cardinality(users) + 1
    /\ calls = 0
    /\ pc = [c \in Callers |-> "idle"]
    /\ call = [c \in Callers |-> NoCall]
    /\ res = [c \in Callers |-> NoResult]
    /\ deletedOk = {}
    /\ fnIn = None
    /\ fnOut = None

----------------------------------------------------------------------------
(* The handlers' status codes (internal/handler/user_handler.go) *)

\* strings.Contains(err.Error(), sub) for the phrases the handlers look for.
\* err.Error() is the message, then ": " and the cause's text; of the causes
\* only pq's unique violation carries one of the phrases ("duplicate key value
\* violates unique constraint").
ErrorContains(err, sub) ==
    \/ err.msg = sub
    \/ sub = "duplicate key value" /\ err.cause = "unique_violation"

\* Were a duplicate key answered 409 on POST as it is on PATCH.
CreateUserStatus_Conflict(r) ==
    IF r.err # NoErr
    THEN IF ErrorContains(r.err, "duplicate key value") THEN 409 ELSE 500
    ELSE 201

\* lines 162-168: POST answers 500 for every repository error.
CreateUserStatus(r) ==
    IF r.err # NoErr THEN 500 ELSE 201

\* lines 182-194
GetUserByIDStatus(r) ==
    IF r.err # NoErr
    THEN IF ErrorContains(r.err, "user not found") THEN 404 ELSE 500
    ELSE 200

\* Were PATCH without its duplicate-key branch.
UpdateUserStatus_NoConflict(r) ==
    IF r.err # NoErr
    THEN IF ErrorContains(r.err, "user not found") THEN 404
         ELSE IF ErrorContains(r.err, "no fields to update") THEN 400
         ELSE 500
    ELSE 200

\* lines 228-248
UpdateUserStatus(r) ==
    IF r.err # NoErr
    THEN IF ErrorContains(r.err, "user not found") THEN 404
         ELSE IF ErrorContains(r.err, "no fields to update") THEN 400
         ELSE IF \/ ErrorContains(r.err, "duplicate key value")
                 \/ ErrorContains(r.err, "already exists") THEN 409
         ELSE 500
    ELSE 200

\* lines 262-274
DeleteUserStatus(r) ==
    IF r.err # NoErr
    THEN IF ErrorContains(r.err, "user not found") THEN 404 ELSE 500
    ELSE 200

\* The status the handler of operation op answers with when the repository
\* returns r.
Status(op, r) ==
    CASE op = "create" -> CreateUserStatus(r)
      [] op = "get" -> GetUserByIDStatus(r)
      [] op = "update" -> UpdateUserStatus(r)
      [] op = "delete" -> DeleteUserStatus(r)

----------------------------------------------------------------------------
(* The handlers' request checks (internal/handler/user_handler.go) *)

\* uuid.Parse of the id path parameter, for the texts in use.
ParseUUID(text) ==
    CASE text = "00000000-0000-0000-0000-000000000001" -> Some(1)
      [] text = "00000000-0000-0000-0000-000000000002" -> Some(2)
      [] OTHER -> None

\* validator tags "email", "min=1" and "oneof=admin staff supplier".
IsEmail(text) == \E i \in 1..Len(Chars(text)) : Chars(text)[i] = "@"
Roles == {"admin", "staff", "supplier"}

\* h.validator.Struct(req) for models.UpdateUserRequest: omitempty skips a nil
\* pointer, a non-nil one is checked whatever it points to.
ValidUpdateRequest(req) ==
    /\ IsNil(req.email) \/ IsEmail(Deref(req.email))
    /\ IsNil(req.full_name) \/ Deref(req.full_name) # ""
    /\ IsNil(req.role) \/ Deref(req.role) \in Roles

\* c.JSON(status, gin.H{"error": error}) without a repository call.
Refuse(status, error) ==
    [status |-> status, error |-> error, called |-> FALSE, args |-> None]

\* Were the empty body left to the repository to turn away.
UpdateUserHandler_NoEmptyCheck(http, r) ==
    IF IsNil(ParseUUID(http.id)) THEN Refuse(400, "invalid user ID format")
    ELSE IF ~http.json THEN Refuse(400, "json")
    ELSE IF ~ValidUpdateRequest(http.req) THEN Refuse(400, "validation")
    ELSE [status |-> UpdateUserStatus(r), error |-> r.err.msg, called |-> TRUE,
          args |-> Some([id |-> Deref(ParseUUID(http.id)), updates |-> http.req])]

\* lines 198-249: PATCH /users/:id, r being what UpdateUser returns if called.
\* The error texts of the JSON decoder and of the validator are written
\* "json" and "validation".
UpdateUserHandler(http, r) ==
    IF IsNil(ParseUUID(http.id)) THEN Refuse(400, "invalid user ID format")
    ELSE IF ~http.json THEN Refuse(400, "json")
    ELSE IF http.req = NoReq
    THEN Refuse(400, "at least one field must be provided for update")
    ELSE IF ~ValidUpdateRequest(http.req) THEN Refuse(400, "validation")
    ELSE [status |-> UpdateUserStatus(r), error |-> r.err.msg, called |-> TRUE,
          args |-> Some([id |-> Deref(ParseUUID(http.id)), updates |-> http.req])]

\* The largest page size the list endpoint lets through.
MaxPageSize == 100

\* models.GetUsersRequest with no query parameter given.
NoQuery ==
    [role |-> None, is_active |-> None, search |-> None, email_domain |-> None,
     created_from |-> None, created_to |-> None, updated_from |-> None,
     updated_to |-> None, sort_by |-> None, sort_order |-> None, page |-> None,
     page_size |-> None]

\* h.validator.Struct(req) for models.GetUsersRequest.
ValidGetUsersRequest(req) ==
    /\ IsNil(req.role) \/ Deref(req.role) \in Roles
    /\ IsNil(req.sort_by) \/ Deref(req.sort_by) \in fieldMap
    /\ IsNil(req.sort_order) \/ Deref(req.sort_order) \in {"asc", "desc"}
    /\ IsNil(req.page) \/ Deref(req.page) >= 1
    /\ IsNil(req.page_size) \/ (Deref(req.page_size) >= 1 /\ Deref(req.page_size) <= MaxPageSize)

\* time.Parse("2006-01-02", text) for the texts in use: midnight of the day, or
\* nil when the text is no date.
ParseDate(text) ==
    IF text \in {"2024-01-15", "2024-02-29"} THEN Some([day |-> text, secs |-> 0])
    ELSE None

\* lines 321-355, one date parameter: kept out of the filter when absent or
\* empty, an error when it does not parse; the upper bounds are moved to the
\* end of the day.
DateFilter(param, endOfDay) ==
    IF IsNil(param) \/ param = Some("") THEN [time |-> None, ok |-> TRUE]
    ELSE IF IsNil(ParseDate(Deref(param))) THEN [time |-> None, ok |-> FALSE]
    ELSE [time |-> IF endOfDay
                   THEN Some([Deref(ParseDate(Deref(param)))
                                 EXCEPT !.secs = 23 * 3600 + 59 * 60 + 59])
                   ELSE ParseDate(Deref(param)),
          ok |-> TRUE]

\* Were the offset taken from the page number as it is.
PageParams_OffsetFromPage(req) ==
    LET page0 == IF IsNil(req.page) THEN 1 ELSE Deref(req.page)
        pageSize0 == IF IsNil(req.page_size) THEN 10 ELSE Deref(req.page_size)
        page == IF page0 < 1 THEN 1 ELSE page0
        pageSize == IF pageSize0 < 1 THEN 10
                    ELSE IF pageSize0 > MaxPageSize THEN MaxPageSize ELSE pageSize0
    IN  [page |-> page, page_size |-> pageSize, offset |-> page * pageSize]

\* lines 373-399: the defaults, the limits and the offset.
PageParams(req) ==
    LET page0 == IF IsNil(req.page) THEN 1 ELSE Deref(req.page)
        pageSize0 == IF IsNil(req.page_size) THEN 10 ELSE Deref(req.page_size)
        page == IF page0 < 1 THEN 1 ELSE page0
        pageSize == IF pageSize0 < 1 THEN 10
                    ELSE IF pageSize0 > MaxPageSize THEN MaxPageSize ELSE pageSize0
    IN  [page |-> page, page_size |-> pageSize, offset |-> (page - 1) * pageSize]

\* lines 311-402
parseQueryParams(req) ==
    LET createdFrom == DateFilter(req.created_from, FALSE)
        createdTo == DateFilter(req.created_to, TRUE)
        updatedFrom == DateFilter(req.updated_from, FALSE)
        updatedTo == DateFilter(req.updated_to, TRUE)
        failed == [filters |-> None, sort |-> None, pagination |-> None, err |-> ""]
    IN  IF ~createdFrom.ok
        THEN [failed EXCEPT !.err = "invalid created_from date format, use YYYY-MM-DD"]
        ELSE IF ~createdTo.ok
        THEN [failed EXCEPT !.err = "invalid created_to date format, use YYYY-MM-DD"]
        ELSE IF ~updatedFrom.ok
        THEN [failed EXCEPT !.err = "invalid updated_from date format, use YYYY-MM-DD"]
        ELSE IF ~updatedTo.ok
        THEN [failed EXCEPT !.err = "invalid updated_to date format, use YYYY-MM-DD"]
        ELSE [filters |-> Some([role |-> req.role, is_active |-> req.is_active,
                                search |-> req.search,
                                email_domain |-> req.email_domain,
                                created_from |-> createdFrom.time,
                                created_to |-> createdTo.time,
                                updated_from |-> updatedFrom.time,
                                updated_to |-> updatedTo.time]),
              sort |-> Some([field |-> IF IsNil(req.sort_by) THEN "created_at"
                                       ELSE Deref(req.sort_by),
                             order |-> IF IsNil(req.sort_order) THEN "asc"
                                       ELSE Deref(req.sort_order)]),
              pagination |-> Some(PageParams(req)),
              err |-> ""]

\* lines 278-308: GET /users, r being what GetAllUsers returns if called; bound
\* tells whether every query parameter converts to its field's type.
GetAllUsersHandler(http, r) ==
    IF ~http.bound THEN Refuse(400, "bind")
    ELSE IF ~ValidGetUsersRequest(http.req) THEN Refuse(400, "validation")
    ELSE IF parseQueryParams(http.req).err # ""
    THEN Refuse(400, parseQueryParams(http.req).err)
    ELSE [status |-> IF r.err # NoErr THEN 500 ELSE 200,
          error |-> IF r.err # NoErr THEN "failed to retrieve users" ELSE "",
          called |-> TRUE,
          args |-> Some([filters |-> parseQueryParams(http.req).filters,
                         sort |-> parseQueryParams(http.req).sort,
                         pagination |-> parseQueryParams(http.req).pagination])]

----------------------------------------------------------------------------

\* One caller at a time, over the whole range of inputs.
Next ==
    \/ \E user \in NewUsers, t1 \in Times, t2 \in Times, o \in ReturningOutcomes :
          CreateUser("c1", user, t1, t2, o)
    \/ \E id \in UUIDs, o \in QueryOutcomes : GetUserByID("c1", id, o)
    \/ \E id \in UUIDs, updates \in UpdateRequests, t \in Times, o \in QueryOutcomes :
          UpdateCheck("c1", id, updates, t, o)
    \/ \E o \in ReturningOutcomes : UpdateExec("c1", o)
    \/ \E id \in UUIDs, o \in QueryOutcomes : DeleteSelect("c1", id, o)
    \/ \E o \in ExecOutcomes : DeleteExec("c1", o)
    \/ \E f \in ListFilters, so \in ListSorts, pg \in ListPages, o \in QueryOutcomes :
          ListCount("c1", f, so, pg, o)
    \/ \E o \in QueryOutcomes : ListData("c1", o)

Spec == Init /\ [][Next]_vars

\* Concurrent callers, their statements interleaved, over fewer inputs.
ConcNewUsers == {u \in NewUsers : u.id = NilUUID /\ u.email = "c@x.com"}
ConcRequests == {Request({"full_name"}), Request({"is_active"}), Request({"email"})}
ConcPages == {Some([page |-> 1, page_size |-> 1, offset |-> 0])}

NextConc ==
    \E c \in Callers :
        \/ \E user \in ConcNewUsers, t \in Times, o \in {"ok", "fail"} :
              CreateUser(c, user, t, t, o)
        \/ \E id \in UUIDs, o \in {"ok", "fail"} : GetUserByID(c, id, o)
        \/ \E id \in UUIDs, updates \in ConcRequests, t \in Times, o \in {"ok", "fail"} :
              UpdateCheck(c, id, updates, t, o)
        \/ \E o \in {"ok", "fail"} : UpdateExec(c, o)
        \/ \E id \in UUIDs, o \in {"ok", "fail"} : DeleteSelect(c, id, o)
        \/ \E o \in ExecOutcomes : DeleteExec(c, o)
        \/ \E o \in {"ok", "fail"} : ListCount(c, None, None, CHOOSE pg \in ConcPages : TRUE, o)
        \/ \E o \in {"ok", "fail"} : ListData(c, o)

SpecConc == Init /\ [][NextConc]_vars

\* The pagination metadata as a function of the count and the page asked for.
PageInputs ==
    {[total |-> n, pagination |-> [page |-> pg, page_size |-> sz,
                                   offset |-> (pg - 1) * sz]] :
        n \in 0..MaxTotal, pg \in 1..MaxPage, sz \in 1..MaxPageSize}

InitPage ==
    /\ users = {}
    /\ clock = 0
    /\ nextId = 1
    /\ calls = 0
    /\ pc = [c \in Callers |-> "idle"]
    /\ call = [c \in Callers |-> NoCall]
    /\ res = [c \in Callers |-> NoResult]
    /\ deletedOk = {}
    /\ fnIn \in {Some(i) : i \in PageInputs}
    /\ fnOut = None

ApplyPaginationMeta ==
    /\ fnOut = None
    /\ fnOut' = Some(PaginationMeta(Deref(fnIn).total, Deref(fnIn).pagination))
    /\ UNCHANGED <<users, clock, nextId, calls, pc, call, res, deletedOk, fnIn>>

SpecPage == InitPage /\ [][ApplyPaginationMeta]_vars

\* The WHERE clause as a function of the filters: nil, or every combination of
\* the eight fields nil or set, search and email_domain also set to "" and
\* search to a blank.
WhereInputs ==
    {None} \cup
    {Some([role |-> ro, is_active |-> a, search |-> se, email_domain |-> d,
           created_from |-> cf, created_to |-> ct, updated_from |-> uf,
           updated_to |-> ut]) :
        ro \in {None, Some("admin")}, a \in {None, Some(FALSE)},
        se \in {None, Some(""), Some(" "), Some("AN")}, d \in {None, Some(""), Some("x.com")},
        cf \in {None, Some(0)}, ct \in {None, Some(1)},
        uf \in {None, Some(0)}, ut \in {None, Some(2)}}

InitWhere ==
    /\ users = {}
    /\ clock = 0
    /\ nextId = 1
    /\ calls = 0
    /\ pc = [c \in Callers |-> "idle"]
    /\ call = [c \in Callers |-> NoCall]
    /\ res = [c \in Callers |-> NoResult]
    /\ deletedOk = {}
    /\ fnIn \in {Some(f) : f \in WhereInputs}
    /\ fnOut = None

ApplyBuildWhereClause ==
    /\ fnOut = None
    /\ fnOut' = Some(buildWhereClause(Deref(fnIn)))
    /\ UNCHANGED <<users, clock, nextId, calls, pc, call, res, deletedOk, fnIn>>

SpecWhere == InitWhere /\ [][ApplyBuildWhereClause]_vars

\* The row UPDATE ... SET leaves as a function of the row, the request and the
\* time: every combination of the five fields nil or set, phone also set to "".
SetInputs ==
    {[row |-> r,
      updates |-> [email |-> e, full_name |-> n, phone |-> p, role |-> ro,
                   is_active |-> a],
      now |-> t] :
        r \in {SeedAnn, SeedBob},
        e \in {None, Some("c@x.com")}, n \in {None, Some("Zed")},
        p \in {None, Some(""), Some("999")}, ro \in {None, Some("supplier")},
        a \in {None, Some(FALSE)}, t \in Times}

InitSet ==
    /\ users = {}
    /\ clock = 0
    /\ nextId = 1
    /\ calls = 0
    /\ pc = [c \in Callers |-> "idle"]
    /\ call = [c \in Callers |-> NoCall]
    /\ res = [c \in Callers |-> NoResult]
    /\ deletedOk = {}
    /\ fnIn \in {Some(i) : i \in SetInputs}
    /\ fnOut = None

ApplySet ==
    /\ fnOut = None
    /\ fnOut' = Some(ApplyUpdate(Deref(fnIn).row, Deref(fnIn).updates, Deref(fnIn).now))
    /\ UNCHANGED <<users, clock, nextId, calls, pc, call, res, deletedOk, fnIn>>

SpecSet == InitSet /\ [][ApplySet]_vars

\* The ORDER BY clause as a function of the sort parameters: nil, or any field
\* and order strings, listed or not.
OrderInputs ==
    {None} \cup
    {Some([field |-> f, order |-> o]) :
        f \in fieldMap \cup {"", "ID", "phone", "password", "id; DROP TABLE users"},
        o \in {"asc", "desc", "DESC", "Desc", ""}}

InitOrder ==
    /\ users = {}
    /\ clock = 0
    /\ nextId = 1
    /\ calls = 0
    /\ pc = [c \in Callers |-> "idle"]
    /\ call = [c \in Callers |-> NoCall]
    /\ res = [c \in Callers |-> NoResult]
    /\ deletedOk = {}
    /\ fnIn \in {Some(so) : so \in OrderInputs}
    /\ fnOut = None

ApplyBuildOrderClause ==
    /\ fnOut = None
    /\ fnOut' = Some(buildOrderClause(Deref(fnIn)))
    /\ UNCHANGED <<users, clock, nextId, calls, pc, call, res, deletedOk, fnIn>>

SpecOrder == InitOrder /\ [][ApplyBuildOrderClause]_vars

\* The queries of GetAllUsers as a function of its three parameters.
QuerySorts ==
    {None, Some([field |-> "email", order |-> "desc"]),
     Some([field |-> "password", order |-> "asc"])}
QueryPages ==
    {[page |-> 1, page_size |-> 1, offset |-> 0],
     [page |-> 2, page_size |-> 10, offset |-> 10]}
QueryInputs ==
    {[filters |-> f, sort |-> so, pagination |-> pg] :
        f \in WhereInputs, so \in QuerySorts, pg \in QueryPages}

InitQuery ==
    /\ users = {}
    /\ clock = 0
    /\ nextId = 1
    /\ calls = 0
    /\ pc = [c \in Callers |-> "idle"]
    /\ call = [c \in Callers |-> NoCall]
    /\ res = [c \in Callers |-> NoResult]
    /\ deletedOk = {}
    /\ fnIn \in {Some(i) : i \in QueryInputs}
    /\ fnOut = None

ApplyGetAllUsersQueries ==
    /\ fnOut = None
    /\ fnOut' = Some(GetAllUsersQueries(Deref(fnIn).filters, Deref(fnIn).sort,
                                        Deref(fnIn).pagination))
    /\ UNCHANGED <<users, clock, nextId, calls, pc, call, res, deletedOk, fnIn>>

SpecQuery == InitQuery /\ [][ApplyGetAllUsersQueries]_vars

\* The handlers as functions of the HTTP request and of what the repository
\* returns when they call it.
PatchIds ==
    {"00000000-0000-0000-0000-000000000001", "00000000-0000-0000-0000-000000000002",
     "not-a-uuid"}
PatchBodies ==
    {[json |-> FALSE, req |-> NoReq]} \cup
    {[json |-> TRUE,
      req |-> [email |-> e, full_name |-> n, phone |-> p, role |-> ro,
               is_active |-> a]] :
        e \in {None, Some("b@x.com"), Some("nope")},
        n \in {None, Some("Zed"), Some("")},
        p \in {None, Some("999")},
        ro \in {None, Some("supplier"), Some("boss")},
        a \in {None, Some(FALSE)}}
UpdateResults ==
    {Result(Some(SeedAnn), None, NoErr),
     Result(None, None, Err("user not found", "sql.ErrNoRows")),
     Result(None, None, Err("no fields to update", "none")),
     Result(None, None, Err("failed to update user", "unique_violation")),
     Result(None, None, Err("failed to update user", "driver"))}
PatchRequests ==
    {[method |-> "PATCH", id |-> i, json |-> b.json, req |-> b.req, repo |-> r] :
        i \in PatchIds, b \in PatchBodies, r \in UpdateResults}

\* GET /users with a handful of values per query parameter.
ListResults ==
    {Result(None, Some([data |-> <<>>, pagination |-> None]), NoErr),
     Result(None, None, Err("failed to get users", "driver"))}
ListQueries ==
    {[NoQuery EXCEPT !.role = ro, !.created_from = cf, !.created_to = ct,
                     !.updated_to = ut, !.sort_by = sb, !.sort_order = so,
                     !.page = pg, !.page_size = sz] :
        ro \in {None, Some("admin"), Some("boss")},
        cf \in {None, Some(""), Some("2024-01-15"), Some("invalid-date")},
        ct \in {None, Some("2024-02-29")},
        ut \in {None, Some("2024-02-30")},
        sb \in {None, Some("email"), Some("invalid_field")},
        so \in {None, Some("desc"), Some("up")},
        pg \in {None} \cup {Some(n) : n \in -1..MaxPage},
        sz \in {None, Some(0), Some(1), Some(MaxPageSize), Some(MaxPageSize + 1)}}
ListRequests ==
    {[method |-> "GET", bound |-> TRUE, req |-> q, repo |-> r] :
        q \in ListQueries, r \in ListResults}
    \cup {[method |-> "GET", bound |-> FALSE, req |-> NoQuery, repo |-> r] :
            r \in ListResults}

InitHttp ==
    /\ users = {}
    /\ clock = 0
    /\ nextId = 1
    /\ calls = 0
    /\ pc = [c \in Callers |-> "idle"]
    /\ call = [c \in Callers |-> NoCall]
    /\ res = [c \in Callers |-> NoResult]
    /\ deletedOk = {}
    /\ fnIn \in {Some(h) : h \in PatchRequests \cup ListRequests}
    /\ fnOut = None

HandleList ==
    /\ fnOut = None
    /\ Deref(fnIn).method = "GET"
    /\ fnOut' = Some(GetAllUsersHandler(Deref(fnIn), Deref(fnIn).repo))
    /\ UNCHANGED <<users, clock, nextId, calls, pc, call, res, deletedOk, fnIn>>

HandlePatch ==
    /\ fnOut = None
    /\ Deref(fnIn).method = "PATCH"
    /\ fnOut' = Some(UpdateUserHandler(Deref(fnIn), Deref(fnIn).repo))
    /\ UNCHANGED <<users, clock, nextId, calls, pc, call, res, deletedOk, fnIn>>

NextHttp == HandlePatch \/ HandleList

SpecHttp == InitHttp /\ [][NextHttp]_vars

----------------------------------------------------------------------------
(* Properties *)

\* Caller c starts a call in this step.
Began(c) == calls' = calls + 1 /\ call'[c].seq = calls'

\* Caller c's call runs its second statement in this step and returns.
Returned(c, label) == pc[c] = label /\ pc'[c] = "done"

\* The store itself failed the statement (connection or decoding), as opposed
\* to answering it.
StoreFault(err) == err.cause \in {"driver", "scan"}

\* C1: UpdateUser with no field supplied checks the row's existence first. It
\* fails with "user not found" when no row has the id and, when a row has it
\* and the lookup itself does not fail, with "no fields to update"; in both
\* cases it returns no user, issues no UPDATE and leaves the table as it was.
C1_ExistenceBeforeEmptyCheck ==
    [][\A c \in Callers :
        (Began(c) /\ call'[c].op = "update" /\ call'[c].updates = NoReq) =>
            /\ pc'[c] = "done"
            /\ users' = users
            /\ call'[c].stmts = <<"SELECT">>
            /\ res'[c].user = None
            /\ IF RowsById(call'[c].id) = {}
               THEN res'[c].err.msg = "user not found"
               ELSE \/ res'[c].err = Err("no fields to update", "none")
                    \/ StoreFault(res'[c].err)]_vars

\* An empty update of a row that exists has been turned away.
C1_Witness ==
    \E c \in Callers :
        /\ pc[c] = "done" /\ call[c].op = "update" /\ call[c].updates = NoReq
        /\ RowsById(call[c].id) # {}
        /\ res[c] = Result(None, None, Err("no fields to update", "none"))

\* C2: when the DELETE of DeleteUser finds no row left to remove (the row went
\* away after the lookup), the call returns no user and an error, never the
\* row it had fetched; unless the store failed the statement, the error is
\* "user not found".
C2_ZeroRowsIsNotFound ==
    [][\A c \in Callers :
        (Returned(c, "delete") /\ RowsById(call[c].id) = {}) =>
            /\ users' = users
            /\ res'[c].user = None
            /\ res'[c].err # NoErr
            /\ StoreFault(res'[c].err)
                  \/ res'[c].err = Err("user not found", "none")]_vars

\* A DeleteUser that had found its row got "user not found" from the DELETE.
C2_Witness ==
    \E c \in Callers :
        /\ pc[c] = "done" /\ call[c].op = "delete"
        /\ call[c].found # None
        /\ call[c].stmts = <<"SELECT", "DELETE">>
        /\ res[c] = Result(None, None, Err("user not found", "none"))

\* C3 as stated: when the row is gone by the time the UPDATE of UpdateUser
\* runs, the call fails with "user not found" and PATCH answers 404.
C3_RaceIsNotFound ==
    [][\A c \in Callers :
        (Returned(c, "update") /\ RowsById(call[c].id) = {}
            /\ ~StoreFault(res'[c].err)) =>
            /\ res'[c].err.msg = "user not found"
            /\ UpdateUserStatus(res'[c]) = 404]_vars

\* C3, amended: when the row is gone by the time the UPDATE of UpdateUser runs,
\* the call returns no user and, unless the store failed the statement, the
\* error "no user returned after update", which is not "user not found": PATCH
\* answers 500. The table is left as it was.
C3_RaceIsNoRowReturned ==
    [][\A c \in Callers :
        (Returned(c, "update") /\ RowsById(call[c].id) = {}) =>
            /\ users' = users
            /\ res'[c].user = None
            /\ StoreFault(res'[c].err)
                  \/ res'[c].err = Err("no user returned after update", "none")
            /\ UpdateUserStatus(res'[c]) = 500]_vars

\* An UpdateUser passed its existence check and then found the row deleted.
C3_Witness ==
    \E c \in Callers :
        /\ pc[c] = "done" /\ call[c].op = "update"
        /\ call[c].stmts = <<"SELECT", "UPDATE">>
        /\ call[c].id \in deletedOk
        /\ res[c] = Result(None, None, Err("no user returned after update", "none"))

\* C4: a DeleteUser that succeeds returns the row it removed and the row is
\* gone; every later GetUserByID, UpdateUser or DeleteUser for that id returns
\* no user and "user not found" (404), never a silent success.
C4_DeleteNotIdempotent ==
    [][\A c \in Callers :
        /\ (Returned(c, "delete") /\ res'[c].err = NoErr) =>
              /\ RowsById(call[c].id) # {}
              /\ res'[c].user = Some(RowOf(call[c].id))
              /\ users' = users \ RowsById(call[c].id)
        /\ (Began(c) /\ call'[c].op \in {"get", "update", "delete"}
                /\ call'[c].id \in deletedOk) =>
              /\ pc'[c] = "done"
              /\ users' = users
              /\ res'[c].user = None
              /\ res'[c].err.msg = "user not found"
              /\ Status(call'[c].op, res'[c]) = 404]_vars

\* A second DeleteUser for an id already deleted has come back "user not found".
C4_Witness ==
    \E c \in Callers :
        /\ pc[c] = "done" /\ call[c].op = "delete"
        /\ call[c].id \in deletedOk
        /\ res[c] = Result(None, None, Err("user not found", "sql.ErrNoRows"))

\* C5: when CreateUser has returned a user and the same caller next calls
\* GetUserByID with that user's id, nothing having changed the table in
\* between, the call returns a user equal to it in every field (unless the
\* store fails the lookup).
C5_CreateGetRoundTrip ==
    [][\A c \in Callers :
        (/\ pc[c] = "done" /\ call[c].op = "create" /\ res[c].err = NoErr
         /\ Began(c) /\ call'[c].op = "get"
         /\ call'[c].id = Deref(res[c].user).id) =>
            \/ StoreFault(res'[c].err)
            \/ /\ res'[c].err = NoErr
               /\ res'[c].user = res[c].user]_vars

\* A GetUserByID has returned the row a CreateUser before it stored, created
\* at a time the column cannot hold exactly.
C5_Witness ==
    \E c \in Callers :
        /\ pc[c] = "done" /\ call[c].op = "get" /\ res[c].err = NoErr
        /\ Deref(res[c].user).full_name = "Cy"
        /\ clock = 1

\* C6: a CreateUser that stores a row stores exactly one, under the id just
\* generated, which no row had before, with is_active true and both timestamps
\* read from the clock during the call, whatever the caller had put in those
\* fields; email, full_name, phone and role are stored as supplied. A
\* CreateUser that returns a user has stored it.
C6_ServerFieldsOverwritten ==
    [][\A c \in Callers :
        (Began(c) /\ call'[c].op = "create") =>
            /\ res'[c].err = NoErr => res'[c].user \in {Some(r) : r \in users' \ users}
            /\ users' # users =>
                  LET given == Deref(call'[c].input)
                  IN  \E row \in users' \ users :
                        /\ users' = users \cup {row}
                        /\ row.id = nextId /\ row.id # NilUUID
                        /\ \A r \in users : r.id # row.id
                        /\ row.is_active = TRUE
                        /\ \E t1, t2 \in Times :
                              /\ clock <= t1 /\ t1 <= t2 /\ t2 = clock'
                              /\ row.created_at = DbTimestamp(t1)
                              /\ row.updated_at = DbTimestamp(t2)
                        /\ row.email = given.email
                        /\ row.full_name = given.full_name
                        /\ row.phone = given.phone
                        /\ row.role = given.role]_vars

\* A CreateUser given an object with id, is_active and timestamps filled in
\* has succeeded.
C6_Witness ==
    \E c \in Callers :
        /\ pc[c] = "done" /\ call[c].op = "create" /\ res[c].err = NoErr
        /\ Deref(call[c].input).id # NilUUID
        /\ Deref(call[c].input).id # Deref(res[c].user).id
        /\ Deref(res[c].user) \in users

\* C7: a successful UpdateUser changes only the row with the given id; in it,
\* each field the request supplies takes the supplied value, updated_at takes
\* the current time, and id, created_at and every field the request leaves
\* out keep their values. The row returned is the row stored.
C7_UpdateFrame ==
    [][\A c \in Callers :
        (Returned(c, "update") /\ res'[c].err = NoErr) =>
            LET old == RowOf(call[c].id)
                new == Deref(res'[c].user)
                upd == call[c].updates
            IN  /\ RowsById(call[c].id) # {}
                /\ users' = (users \ {old}) \cup {new}
                /\ new.id = old.id
                /\ new.created_at = old.created_at
                /\ new.updated_at = DbTimestamp(clock)
                /\ \A f \in PatchFields \ {"phone"} :
                      new[f] = IF IsNil(upd[f]) THEN old[f] ELSE Deref(upd[f])
                /\ new.phone = IF IsNil(upd.phone) THEN old.phone ELSE upd.phone]_vars

\* An UpdateUser of two fields has succeeded on a row that has a phone, in a
\* table of two rows.
C7_Witness ==
    \E c \in Callers :
        /\ pc[c] = "done" /\ call[c].op = "update" /\ res[c].err = NoErr
        /\ call[c].updates = Request({"full_name", "role"})
        /\ Deref(res[c].user).phone = Some("555")
        /\ Cardinality(users) = 2

\* C8 as stated: GetAllUsers given nil filters, nil sort and nil pagination
\* does not crash and, unless the store fails, returns a page of users.
C8_NilParametersTolerated ==
    \A c \in Callers :
        (/\ pc[c] = "done" /\ call[c].op = "list"
         /\ call[c].filters = None /\ call[c].sort = None
         /\ call[c].pagination = None) =>
            /\ ~res[c].panic
            /\ StoreFault(res[c].err) \/ res[c].list # None

\* The quotient a / b rounded up, by its definition.
CeilDiv(a, b) == CHOOSE q \in 0..a : q * b >= a /\ (q = 0 \/ (q - 1) * b < a)

\* C9: for a page size of at least 1, the metadata has total_pages equal to
\* the larger of 1 and ceil(total / page_size), has_next true exactly when
\* page < total_pages, has_prev true exactly when page > 1, and page,
\* page_size and total as given.
C9_PaginationMetadata ==
    fnOut # None =>
        LET total == Deref(fnIn).total
            pg == Deref(fnIn).pagination
            meta == Deref(fnOut)
            expected == IF CeilDiv(total, pg.page_size) > 1
                        THEN CeilDiv(total, pg.page_size) ELSE 1
        IN  /\ meta.total_pages = expected
            /\ meta.has_next = (pg.page < expected)
            /\ meta.has_prev = (pg.page > 1)
            /\ meta.page = pg.page
            /\ meta.page_size = pg.page_size
            /\ meta.total = total

\* total 12, page_size 5, page 3: three pages, the last one.
C9_Witness ==
    /\ fnIn = Some([total |-> 12,
                    pagination |-> [page |-> 3, page_size |-> 5, offset |-> 10]])
    /\ fnOut = Some([page |-> 3, page_size |-> 5, total |-> 12, total_pages |-> 3,
                     has_next |-> FALSE, has_prev |-> TRUE])

\* C10 as stated: a lookup that the store fails is not reported as "user not
\* found", so GET, PATCH and DELETE answer 404 only when no row has the id.
C10_StoreFailureIsNot404 ==
    \A c \in Callers :
        (/\ pc[c] = "done" /\ call[c].op \in {"get", "update", "delete"}
         /\ call[c].stmts = <<"SELECT">>
         /\ res[c].err # NoErr) =>
            /\ StoreFault(res[c].err) => res[c].err.msg # "user not found"
            /\ StoreFault(res[c].err) => Status(call[c].op, res[c]) = 500
            /\ Status(call[c].op, res[c]) = 404 => RowsById(call[c].id) = {}

\* The email given to a CreateUser call already belonged to a row when the
\* call started, and the store did not fail the INSERT for another reason.
CreatesDuplicate(c) ==
    /\ pc[c] = "done" /\ call[c].op = "create" /\ ~call[c].canceled
    /\ \E r \in call[c].before : r.email = Deref(call[c].input).email

\* What CreateUser returns when the connection is lost.
InsertLostConnection == Result(None, None, Err("failed to insert user", "driver"))

\* C11 as stated: creating a user whose email belongs to another row inserts
\* no row and yields an error message and a status different from those a lost
\* connection yields.
C11_DuplicateIsDistinctOutcome ==
    \A c \in Callers :
        CreatesDuplicate(c) =>
            /\ users = call[c].before
            /\ res[c].err.msg # InsertLostConnection.err.msg
            /\ CreateUserStatus(res[c]) # CreateUserStatus(InsertLostConnection)

\* C11, amended: creating a user whose email belongs to another row inserts no
\* row and returns no user; the error is "failed to insert user" wrapping the
\* store's unique violation, and POST answers 500: the message and the status
\* a lost connection yields, the two differing only in the wrapped cause.
C11_DuplicateIsInsertFailure ==
    \A c \in Callers :
        CreatesDuplicate(c) =>
            /\ users = call[c].before
            /\ res[c] = Result(None, None,
                               Err("failed to insert user", "unique_violation"))
            /\ res[c].err.msg = InsertLostConnection.err.msg
            /\ res[c].err.cause # InsertLostConnection.err.cause
            /\ CreateUserStatus(res[c]) = 500
            /\ CreateUserStatus(res[c]) = CreateUserStatus(InsertLostConnection)

\* A CreateUser with the email of a stored row has been refused.
C11_Witness ==
    \E c \in Callers :
        /\ CreatesDuplicate(c)
        /\ res[c].err.cause = "unique_violation"
        /\ call[c].before # {}

\* An UpdateUser call has come back to the PATCH handler.
UpdateDone(c) == pc[c] = "done" /\ call[c].op = "update"

\* The call sets the email of a row that existed when it started to the email
\* another row had then, and the store failed none of its statements.
UpdatesToDuplicate(c) ==
    /\ UpdateDone(c) /\ ~call[c].canceled
    /\ call[c].updates.email # None
    /\ \E r \in call[c].before : r.id = call[c].id
    /\ \E r \in call[c].before :
          r.id # call[c].id /\ r.email = Deref(call[c].updates.email)
    /\ res[c].err.cause # "scan"

\* C12: PATCH answers each repository outcome with one status: 200 for
\* success, 404 for "user not found", 400 for "no fields to update", 409 for a
\* duplicate-key error and 500 for any other error; setting a row's email to
\* one another row has is answered 409 and leaves the table as it was.
C12_PatchStatusMapping ==
    \A c \in Callers :
        /\ UpdateDone(c) =>
              UpdateUserStatus(res[c]) =
                  CASE res[c].err = NoErr -> 200
                    [] res[c].err.msg = "user not found" -> 404
                    [] res[c].err.msg = "no fields to update" -> 400
                    [] res[c].err.cause = "unique_violation" -> 409
                    [] OTHER -> 500
        /\ UpdatesToDuplicate(c) =>
              /\ UpdateUserStatus(res[c]) = 409
              /\ res[c].user = None
              /\ users = call[c].before

\* An update of Ann's email to Bob's has been refused.
C12_Witness ==
    \E c \in Callers :
        /\ UpdatesToDuplicate(c)
        /\ call[c].stmts = <<"SELECT", "UPDATE">>
        /\ Cardinality(users) = 2
        /\ UpdateUserStatus(res[c]) = 409

\* C13: a PATCH with a well-formed id whose body parses but holds none of the
\* five fields is answered 400 without a call of UpdateUser, whatever the
\* repository would have answered; the checks come in the order id format,
\* body parse, empty body, field validation, and UpdateUser is called only
\* when all four pass.
C13_EmptyPatchRefused ==
    fnOut # None /\ Deref(fnIn).method = "PATCH" =>
        LET http == Deref(fnIn)
            out == Deref(fnOut)
            idOk == http.id # "not-a-uuid"
            invalid == \/ http.req.email = Some("nope")
                       \/ http.req.full_name = Some("")
                       \/ http.req.role = Some("boss")
        IN  /\ (idOk /\ http.json /\ http.req = NoReq) =>
                  out = Refuse(400, "at least one field must be provided for update")
            /\ out.error =
                  CASE ~idOk -> "invalid user ID format"
                    [] ~http.json -> "json"
                    [] http.req = NoReq ->
                         "at least one field must be provided for update"
                    [] invalid -> "validation"
                    [] OTHER -> http.repo.err.msg
            /\ out.called = (idOk /\ http.json /\ http.req # NoReq /\ ~invalid)
            /\ ~out.called => out.status = 400 /\ out.args = None
            /\ out.called => out.args = Some([id |-> Deref(ParseUUID(http.id)),
                                              updates |-> http.req])

\* An empty PATCH for a well-formed id has been refused although the
\* repository would have answered "user not found".
C13_Witness ==
    /\ fnIn # None /\ fnOut # None
    /\ Deref(fnIn).method = "PATCH"
    /\ Deref(fnIn).id = "00000000-0000-0000-0000-000000000001"
    /\ Deref(fnIn).json /\ Deref(fnIn).req = NoReq
    /\ Deref(fnIn).repo.err.msg = "user not found"
    /\ Deref(fnOut).status = 400 /\ ~Deref(fnOut).called

\* C14: the list handler calls GetAllUsers only with page >= 1, page_size
\* within 1..100 and offset = (page - 1) * page_size, page being the one asked
\* for or 1 and page_size the one asked for or 10 (page numbers up to MaxPage);
\* a request whose page, page_size, sort_by, sort_order or role is out of
\* range, or one of whose dates is not empty and not a date, is answered 400
\* without a call of the repository.
C14_ListParametersInRange ==
    fnOut # None /\ Deref(fnIn).method = "GET" =>
        LET q == Deref(fnIn).req
            out == Deref(fnOut)
            outOfRange ==
                \/ q.page # None /\ Deref(q.page) < 1
                \/ q.page_size # None /\ Deref(q.page_size) \notin 1..100
                \/ q.sort_by = Some("invalid_field")
                \/ q.sort_order = Some("up")
                \/ q.role = Some("boss")
            badDate ==
                \E d \in {q.created_from, q.created_to, q.updated_from, q.updated_to} :
                    d \in {Some("invalid-date"), Some("2024-02-30")}
        IN  /\ (outOfRange \/ badDate) => out.status = 400 /\ ~out.called
            /\ out.called =>
                  LET pg == Deref(Deref(out.args).pagination)
                  IN  /\ pg.page >= 1
                      /\ pg.page_size >= 1 /\ pg.page_size <= 100
                      /\ pg.offset = (pg.page - 1) * pg.page_size
                      /\ pg.page = IF q.page = None THEN 1 ELSE Deref(q.page)
                      /\ pg.page_size = IF q.page_size = None THEN 10
                                        ELSE Deref(q.page_size)
            /\ out.called = (Deref(fnIn).bound /\ ~outOfRange /\ ~badDate)

\* Page 3 of size 100 has been passed on with offset 200.
C14_Witness ==
    /\ fnIn # None /\ fnOut # None
    /\ Deref(fnIn).method = "GET"
    /\ Deref(fnOut).called
    /\ Deref(Deref(fnOut).args).pagination =
          Some([page |-> 3, page_size |-> 100, offset |-> 200])

\* No two rows share an id or an email.
UniqueRows ==
    \A r, q \in users : r # q => r.id # q.id /\ r.email # q.email

\* C15: whatever CreateUser, UpdateUser and DeleteUser calls have run, and
\* however their statements interleaved, no two stored rows have the same
\* email or the same id; a CreateUser whose email a row holds, and an UPDATE
\* that sets an email another row holds, fail, return no user and leave the
\* table as it was.
C15_EmailAndIdUnique ==
    /\ []UniqueRows
    /\ [][\A c \in Callers :
            /\ (/\ Began(c) /\ call'[c].op = "create"
                /\ \E r \in users : r.email = Deref(call'[c].input).email) =>
                  /\ users' = users
                  /\ res'[c].err # NoErr /\ res'[c].user = None
            /\ (/\ Returned(c, "update") /\ call[c].updates.email # None
                /\ \E r \in users :
                      r.id # call[c].id /\ r.email = Deref(call[c].updates.email)) =>
                  /\ users' = users
                  /\ res'[c].err # NoErr /\ res'[c].user = None]_vars

\* Two callers created the same email at once: one row is stored and the
\* other call was refused.
C15_Witness ==
    /\ \A c \in Callers : pc[c] = "done" /\ call[c].op = "create"
    /\ \E c \in Callers : res[c].err.cause = "unique_violation"
    /\ \E c \in Callers : res[c].err = NoErr
    /\ Cardinality({r \in users : r.email = "c@x.com"}) = 1

\* C16: when the store fails a statement of a call, as it does once the
\* call's context is canceled, the call ends there and returns an error and
\* no user and no page; this holds for each of the five operations and for
\* each of their statements.
C16_CancellationSurfaces ==
    \A c \in Callers :
        call[c].canceled =>
            /\ pc[c] = "done"
            /\ res[c].err # NoErr
            /\ res[c].err.cause = "driver"
            /\ res[c].user = None
            /\ res[c].list = None
            /\ ~res[c].panic

\* A DeleteUser that had fetched its row had its DELETE canceled.
C16_Witness ==
    \E c \in Callers :
        /\ call[c].canceled /\ call[c].op = "delete"
        /\ call[c].found # None
        /\ call[c].stmts = <<"SELECT", "DELETE">>
        /\ res[c] = Result(None, None, Err("failed to delete user", "driver"))

\* C17 as stated: under every interleaving, the entity a successful DeleteUser
\* returns is the row as the DELETE found it.
C17_ReturnsRowAsDeleted ==
    [][\A c \in Callers :
        (Returned(c, "delete") /\ res'[c].err = NoErr) =>
            res'[c].user = Some(RowOf(call[c].id))]_vars

\* C17, amended: the entity a successful DeleteUser returns is the row as the
\* call's own SELECT fetched it, a row of the table when the call started, and
\* the row with that id is gone; when another caller updated the row between
\* the SELECT and the DELETE, the entity returned is not the row removed.
C17_ReturnsRowAsFetched ==
    \A c \in Callers :
        (pc[c] = "done" /\ call[c].op = "delete" /\ res[c].err = NoErr) =>
            /\ res[c].user # None
            /\ res[c].user = call[c].found
            /\ Deref(res[c].user) \in call[c].before
            /\ Deref(res[c].user).id = call[c].id
            /\ RowsById(call[c].id) = {}

\* A DeleteUser returned the row as it was before an UpdateUser, started later
\* by the other caller, changed it.
C17_Witness ==
    \E c, d \in Callers :
        /\ pc[c] = "done" /\ call[c].op = "delete" /\ res[c].err = NoErr
        /\ pc[d] = "done" /\ call[d].op = "update" /\ res[d].err = NoErr
        /\ call[d].id = call[c].id /\ call[d].seq > call[c].seq
        /\ res[d].user # res[c].user

\* C18: GetUserByID and GetAllUsers never change the table (nor the id
\* sequence, nor the clock), whatever they return; and a GetUserByID that
\* directly follows a GetUserByID for the same id returns the same result,
\* unless the store fails one of the two lookups.
C18_ReadsAreReadOnly ==
    [][\A c \in Callers :
        /\ ((Began(c) /\ call'[c].op \in {"get", "list"}) \/ pc[c] = "list") =>
              /\ users' = users
              /\ nextId' = nextId
              /\ clock' = clock
        /\ (Began(c) /\ call'[c].op = "get"
                /\ pc[c] = "done" /\ call[c].op = "get"
                /\ call[c].id = call'[c].id
                /\ ~StoreFault(res[c].err) /\ ~StoreFault(res'[c].err)) =>
              res'[c] = res[c]]_vars

\* The second of two calls, a lookup of a stored row, has returned the row, and
\* the table is as it was before the first call.
C18_Witness ==
    \E c \in Callers :
        /\ calls = 2 /\ pc[c] = "done" /\ call[c].op = "get" /\ call[c].seq = 2
        /\ res[c].err = NoErr
        /\ res[c].user = Some(RowOf(call[c].id))
        /\ users = call[c].before
        /\ users \in SeedTables /\ clock = 0 /\ deletedOk = {}

\* The statements an operation issues when every step succeeds, in order.
Statements(op) ==
    CASE op = "create" -> <<"INSERT">>
      [] op = "get" -> <<"SELECT">>
      [] op = "update" -> <<"SELECT", "UPDATE">>
      [] op = "delete" -> <<"SELECT", "DELETE">>
      [] op = "list" -> <<"COUNT", "SELECT">>
      [] OTHER -> <<>>

\* The call failed at its first statement, or ended on that statement's answer.
EndedAtFirst(c) ==
    \/ res[c].panic
    \/ /\ call[c].op \in {"update", "delete"}
       /\ res[c].err.msg = "user not found" /\ res[c].err.cause # "none"
    \/ call[c].op = "update" /\ res[c].err.msg = "no fields to update"
    \/ call[c].op = "list" /\ res[c].err.msg = "failed to get total count"

\* C19: no operation retries. The statements a call has issued are a prefix of
\* its operation's fixed sequence, each at most once: all of it when the call
\* succeeded, only the first while the call waits between its two statements
\* and after the first failed or UpdateUser found no field to update.
C19_NoRetryFixedOrder ==
    \A c \in Callers :
        LET all == Statements(call[c].op)
            s == call[c].stmts
        IN  pc[c] # "idle" =>
              /\ Len(s) \in 1..Len(all)
              /\ s = SubSeq(all, 1, Len(s))
              /\ pc[c] \in {"update", "delete", "list"} => Len(s) = 1
              /\ (pc[c] = "done" /\ res[c].err = NoErr /\ ~res[c].panic) => s = all
              /\ (pc[c] = "done" /\ EndedAtFirst(c)) => Len(s) = 1
              /\ (pc[c] = "done" /\ Len(all) = 2 /\ ~EndedAtFirst(c)) => s = all

\* An UpdateUser whose UPDATE the store failed has returned after one SELECT
\* and one UPDATE.
C19_Witness ==
    \E c \in Callers :
        /\ pc[c] = "done" /\ call[c].op = "update"
        /\ res[c].err = Err("failed to update user", "driver")
        /\ call[c].stmts = <<"SELECT", "UPDATE">>

\* The filter fields in the order the claim fixes, the condition each one
\* stands for and the value each one binds.
WhereFields ==
    <<"role", "is_active", "search", "email_domain", "created_from", "created_to",
      "updated_from", "updated_to">>

FieldApplies(f, name) ==
    /\ f[name] # None
    /\ name \in {"search", "email_domain"} => f[name] # Some("")

AppliedFields(filters) ==
    IF IsNil(filters) THEN <<>>
    ELSE SelectSeq(WhereFields, LAMBDA name : FieldApplies(Deref(filters), name))

FieldCondition(name) ==
    CASE name = "role" -> "role = $%d"
      [] name = "is_active" -> "is_active = $%d"
      [] name = "search" ->
           "(LOWER(full_name) LIKE LOWER($%d) OR LOWER(email) LIKE LOWER($%d))"
      [] name = "email_domain" -> "email LIKE $%d"
      [] name = "created_from" -> "created_at >= $%d"
      [] name = "created_to" -> "created_at <= $%d"
      [] name = "updated_from" -> "updated_at >= $%d"
      [] name = "updated_to" -> "updated_at <= $%d"

FieldValue(f, name) ==
    CASE name = "search" -> <<"%", Deref(f.search), "%">>
      [] name = "email_domain" -> <<"%@", Deref(f.email_domain), "%">>
      [] OTHER -> f[name]

\* C20: buildWhereClause emits one condition per applied field (set, and for
\* search and email_domain not ""), in the order role, is_active, search,
\* email_domain, created_from, created_to, updated_from, updated_to. The k-th
\* condition is the field's fixed text with every placeholder numbered k
\* (search writes it twice), the k-th argument is the field's bound value, and
\* the placeholders written are exactly 1..len(args).
C20_WhereClausePlaceholders ==
    fnOut # None =>
        LET filters == Deref(fnIn)
            w == Deref(fnOut)
            names == AppliedFields(filters)
        IN  /\ Len(w.conditions) = Len(names)
            /\ Len(w.args) = Len(names)
            /\ \A k \in 1..Len(names) :
                  /\ w.conditions[k].expr = FieldCondition(names[k])
                  /\ Len(w.conditions[k].ph) = IF names[k] = "search" THEN 2 ELSE 1
                  /\ \A i \in DOMAIN w.conditions[k].ph : w.conditions[k].ph[i] = k
                  /\ w.args[k] = FieldValue(Deref(filters), names[k])
            /\ UNION {{w.conditions[k].ph[i] : i \in DOMAIN w.conditions[k].ph} :
                         k \in DOMAIN w.conditions} = 1..Len(w.args)

\* Role, search and updated_to apply and email_domain is "": three conditions,
\* search writing $2 twice and updated_to taking $3.
C20_Witness ==
    /\ fnOut # None /\ ~IsNil(Deref(fnIn))
    /\ AppliedFields(Deref(fnIn)) = <<"role", "search", "updated_to">>
    /\ Deref(Deref(fnIn)).email_domain = Some("")
    /\ Deref(fnOut).conditions[2].ph = <<2, 2>>
    /\ Deref(fnOut).conditions[3] = Condition("updated_at <= $%d", <<3>>)
    /\ Deref(fnOut).args = <<Some("admin"), <<"%", "AN", "%">>, Some(2)>>

\* The query text holds the piece s.
HasText(query, s) == \E i \in DOMAIN query : query[i] = Text(s)

\* C21: when no filter field applies (filters nil, every field nil, or search
\* and email_domain at most ""), the WHERE expression and the filter arguments
\* are empty and neither the count query nor the data query has a WHERE clause;
\* when a field applies both have one.
C21_NoFilterNoWhere ==
    fnOut # None =>
        LET in == Deref(fnIn)
            q == Deref(fnOut)
        IN  IF AppliedFields(in.filters) = <<>>
            THEN /\ q.whereClause = <<>>
                 /\ q.countArgs = <<>>
                 /\ q.countQuery = <<Text("SELECT COUNT(*) FROM users")>>
                 /\ ~HasText(q.baseQuery, " WHERE ")
                 /\ q.args = <<in.pagination.page_size, in.pagination.offset>>
            ELSE /\ q.whereClause # <<>>
                 /\ HasText(q.countQuery, " WHERE ")
                 /\ HasText(q.baseQuery, " WHERE ")

\* The filters are set but hold only an empty search and an empty email_domain:
\* the queries were built without a WHERE clause.
C21_Witness ==
    /\ fnOut # None
    /\ Deref(fnIn).filters =
          Some([NoFilter EXCEPT !.search = Some(""), !.email_domain = Some("")])
    /\ Deref(fnOut).countQuery = <<Text("SELECT COUNT(*) FROM users")>>
    /\ Len(Deref(fnOut).baseQuery) = 6

\* strings.TrimSpace(s) = "": s is empty or holds nothing but blanks.
IsBlank(s) == \A i \in DOMAIN Chars(s) : Chars(s)[i] = " "

\* The positions of the search condition in the WHERE expression.
SearchConditions(w) ==
    {k \in DOMAIN w.conditions : w.conditions[k].expr = FieldCondition("search")}

\* C22 as stated: a search value that is empty or only whitespace adds no
\* condition and no argument; one with other content adds exactly one condition,
\* bound to the single argument '%' + value + '%'.
C22_SearchAppliedIfTrimmedNonEmpty ==
    (fnOut # None /\ ~IsNil(Deref(fnIn)) /\ Deref(Deref(fnIn)).search # None) =>
        LET f == Deref(Deref(fnIn))
            w == Deref(fnOut)
            others == SelectSeq(AppliedFields(Deref(fnIn)), LAMBDA n : n # "search")
        IN  IF IsBlank(Deref(f.search))
            THEN /\ SearchConditions(w) = {}
                 /\ Len(w.args) = Len(others)
            ELSE /\ Cardinality(SearchConditions(w)) = 1
                 /\ Len(w.args) = Len(others) + 1
                 /\ \A k \in SearchConditions(w) :
                       w.args[k] = <<"%", Deref(f.search), "%">>

\* The columns a listing may be sorted by.
SortAllowList ==
    {"id", "email", "full_name", "role", "is_active", "created_at", "updated_at"}

\* C23: for every sort parameter, nil included, buildOrderClause returns
\* ORDER BY col dir where col is the requested field when it is one of id,
\* email, full_name, role, is_active, created_at, updated_at and created_at
\* otherwise, and dir is DESC when the order is exactly "desc" and ASC
\* otherwise; a name outside the list never reaches the clause.
C23_OrderClauseAllowList ==
    fnOut # None =>
        LET sort == Deref(fnIn)
            clause == Deref(fnOut)
        IN  /\ clause.field \in SortAllowList
            /\ clause.field = IF ~IsNil(sort) /\ Deref(sort).field \in SortAllowList
                              THEN Deref(sort).field
                              ELSE "created_at"
            /\ clause.order = IF ~IsNil(sort) /\ Deref(sort).order = "desc"
                              THEN "DESC"
                              ELSE "ASC"

\* A field outside the list with the order in capitals: the clause is the
\* default, ORDER BY created_at ASC.
C23_Witness ==
    /\ fnOut = Some([field |-> "created_at", order |-> "ASC"])
    /\ fnIn = Some(Some([field |-> "id; DROP TABLE users", order |-> "DESC"]))

\* C24: with n filter arguments, the count query and the data query carry the
\* same WHERE expression and the same first n arguments; the data query ends
\* with LIMIT $(n+1) OFFSET $(n+2), and its last two arguments are the page
\* size, at the LIMIT placeholder, and the offset, at the OFFSET placeholder.
C24_SameWhereThenLimitOffset ==
    fnOut # None =>
        LET in == Deref(fnIn)
            q == Deref(fnOut)
            n == Len(AppliedFields(in.filters))
            where == SubSeq(q.countQuery, 2, Len(q.countQuery))
            last == Len(q.baseQuery)
        IN  /\ Len(q.countArgs) = n
            /\ SubSeq(q.baseQuery, 2, 1 + Len(where)) = where
            /\ where # <<>> => where = <<Text(" WHERE ")>> \o q.whereClause
            /\ Len(q.baseQuery) = 1 + Len(where) + 5
            /\ Len(q.args) = n + 2
            /\ SubSeq(q.args, 1, n) = q.countArgs
            /\ q.baseQuery[last - 1] = Condition(" LIMIT $%d", <<n + 1>>)
            /\ q.baseQuery[last] = Condition(" OFFSET $%d", <<n + 2>>)
            /\ q.args[q.baseQuery[last - 1].ph[1]] = in.pagination.page_size
            /\ q.args[q.baseQuery[last].ph[1]] = in.pagination.offset

\* Three filter fields apply: both queries carry the three conditions and the
\* data query ends with LIMIT $4 OFFSET $5, bound to page size 1 and offset 0.
C24_Witness ==
    /\ fnOut # None
    /\ AppliedFields(Deref(fnIn).filters) = <<"is_active", "search", "created_to">>
    /\ Deref(fnIn).pagination = [page |-> 1, page_size |-> 1, offset |-> 0]
    /\ Len(Deref(fnOut).countQuery) = 7
    /\ Deref(fnOut).baseQuery[11] = Condition(" LIMIT $%d", <<4>>)
    /\ Deref(fnOut).baseQuery[12] = Condition(" OFFSET $%d", <<5>>)
    /\ Deref(fnOut).args[4] = 1 /\ Deref(fnOut).args[5] = 0

\* C25 as stated: in the row of every successful CreateUser, created_at and
\* updated_at are the same instant.
C25_CreatedAtEqualsUpdatedAt ==
    \A c \in Callers :
        (pc[c] = "done" /\ call[c].op = "create" /\ res[c].err = NoErr) =>
            /\ Deref(res[c].user).created_at = Deref(res[c].user).updated_at
            /\ \A r \in RowsById(call[c].id) : r.created_at = r.updated_at

\* C26 as stated: an update that supplies phone as the empty string sets the
\* stored row's phone to null.
C26_EmptyPhoneStoresNull ==
    (fnOut # None /\ Deref(fnIn).updates.phone = Some("")) =>
        Deref(fnOut).phone = None

\* C27 as stated: with no other caller, whenever CreateUser, UpdateUser or
\* DeleteUser returns an error, the table holds exactly the rows, with the
\* values, it held before the call.
C27_StateUnchangedOnError ==
    \A c \in Callers :
        (pc[c] = "done" /\ call[c].op \in {"create", "update", "delete"}
            /\ res[c].err # NoErr) =>
            users = call[c].before

\* C28: when two DeleteUser calls for the same id, a row of the table when the
\* first of them starts, have both returned and the store failed neither, they
\* have not both succeeded, and each that failed returned no user and "user not
\* found" (404), whatever the order of their SELECT and DELETE steps; exactly
\* one of the two succeeded, unless a further call was made besides them.
C28_OneDeleteWins ==
    \A c, d \in Callers :
        (/\ c # d
         /\ pc[c] = "done" /\ call[c].op = "delete"
         /\ pc[d] = "done" /\ call[d].op = "delete"
         /\ call[c].id = call[d].id
         /\ call[c].seq < call[d].seq
         /\ \E r \in call[c].before : r.id = call[c].id
         /\ ~StoreFault(res[c].err) /\ ~StoreFault(res[d].err)) =>
            /\ ~(res[c].err = NoErr /\ res[d].err = NoErr)
            /\ \A l \in {c, d} :
                  IF res[l].err = NoErr
                  THEN res[l].user # None
                  ELSE /\ res[l].err.msg = "user not found" /\ res[l].user = None
                       /\ Status("delete", res[l]) = 404
            /\ RowsById(call[c].id) = {}
            /\ calls = 2 => (res[c].err = NoErr \/ res[d].err = NoErr)

\* Both calls fetched the row before either removed it; the one whose SELECT
\* came second removed it and the other's DELETE found nothing.
C28_Witness ==
    \E c, d \in Callers :
        /\ c # d /\ call[c].seq < call[d].seq
        /\ pc[c] = "done" /\ call[c].op = "delete"
        /\ pc[d] = "done" /\ call[d].op = "delete"
        /\ call[c].id = call[d].id
        /\ call[c].found # None /\ call[d].found # None
        /\ res[d].err = NoErr
        /\ res[c] = Result(None, None, Err("user not found", "none"))

\* The fields an update request supplies, and the value a supplied field has
\* in the row once written.
Supplied(updates) == {f \in PatchFields : ~IsNil(updates[f])}
Written(updates, f) ==
    IF f = "phone" THEN Some(Deref(updates.phone)) ELSE Deref(updates[f])

\* C29: when two UpdateUser calls on the same row supply disjoint sets of
\* fields and both have succeeded, the row holds every value either of them
\* supplied, whatever the order of their existence checks and UPDATE statements.
C29_DisjointUpdatesBothKept ==
    \A c, d \in Callers :
        (/\ c # d
         /\ pc[c] = "done" /\ call[c].op = "update" /\ res[c].err = NoErr
         /\ pc[d] = "done" /\ call[d].op = "update" /\ res[d].err = NoErr
         /\ call[c].id = call[d].id
         /\ Supplied(call[c].updates) \cap Supplied(call[d].updates) = {}) =>
            /\ RowsById(call[c].id) # {}
            /\ \A r \in RowsById(call[c].id) :
                  /\ \A f \in Supplied(call[c].updates) :
                        r[f] = Written(call[c].updates, f)
                  /\ \A f \in Supplied(call[d].updates) :
                        r[f] = Written(call[d].updates, f)

\* Both calls checked that the row exists before either wrote; one set the
\* name and the other the email, and the row has both.
C29_Witness ==
    \E c, d \in Callers :
        /\ c # d
        /\ pc[c] = "done" /\ call[c].op = "update" /\ res[c].err = NoErr
        /\ pc[d] = "done" /\ call[d].op = "update" /\ res[d].err = NoErr
        /\ call[c].id = call[d].id
        /\ Supplied(call[c].updates) = {"full_name"}
        /\ Supplied(call[d].updates) = {"email"}
        /\ call[d].before = call[c].before
        /\ \E r \in RowsById(call[c].id) :
              /\ r.full_name = "Zed" /\ r.email = "b@x.com"
              /\ r \notin call[c].before

\* min(pageSize, max(0, total - offset)): the length of the page of total rows.
PageLength(total, pagination) ==
    LET rest == IF total > pagination.offset THEN total - pagination.offset ELSE 0
    IN  IF rest < pagination.page_size THEN rest ELSE pagination.page_size

\* C30 as stated: in every GetAllUsers result the total and the data describe
\* the same set of rows, len(data) = min(pageSize, max(0, total - offset)), also
\* when other callers' writes take effect between its two queries.
C30_TotalDescribesData ==
    \A c \in Callers :
        (pc[c] = "done" /\ call[c].op = "list" /\ res[c].err = NoErr
            /\ ~res[c].panic) =>
            Len(Deref(res[c].list).data)
                = PageLength(Deref(res[c].list).pagination.total,
                             Deref(call[c].pagination))

\* C30, amended: the total of a GetAllUsers result is the number of matching
\* rows when its count query ran, and the data is the page of the matching rows
\* when its data query ran: len(data) = min(pageSize, max(0, m - offset)) for
\* the m rows matching then. The two agree when no write of another caller
\* took effect in between.
C30_TotalAndDataEachAtItsQuery ==
    [][\A c \in Callers :
        (Returned(c, "list") /\ res'[c].err = NoErr) =>
            LET page == Deref(res'[c].list)
                m == Cardinality(Matching(buildWhereClause(call[c].filters)))
            IN  /\ page.pagination.total = call[c].total
                /\ Len(page.data) = PageLength(m, Deref(call[c].pagination))
                /\ \A i \in DOMAIN page.data : page.data[i] \in users
                /\ users = call[c].before =>
                      Len(page.data) = PageLength(page.pagination.total,
                                                  Deref(call[c].pagination))]_vars

\* The count query counted one row, another caller's DeleteUser removed it, and
\* the data query returned an empty page: total 1 with no data.
C30_Witness ==
    \E c, d \in Callers :
        /\ pc[c] = "done" /\ call[c].op = "list" /\ res[c].err = NoErr
        /\ Deref(res[c].list).pagination.total = 1
        /\ Deref(res[c].list).data = <<>>
        /\ pc[d] = "done" /\ call[d].op = "delete" /\ res[d].err = NoErr
        /\ call[d].seq > call[c].seq

====
